---- MODULE Spec2Model ----
(***************************************************************************)
(* Model of the story generator service: GeminiStoryGenerator              *)
(* (storygenerator.py) and the two FastAPI handlers that call it           *)
(* (story_generator_app.py).  Strings are sequences of one-character       *)
(* strings, so that split, strip, replace, startswith and the substring    *)
(* test are computed character by character as Python computes them.       *)
(***************************************************************************)
EXTENDS Integers, Sequences, FiniteSets, TLC

VARIABLES
    pc,           \* position of the request being served
    attempt,      \* loop variable of generate_story
    story,        \* raw text returned by the text-generation collaborator
    result,       \* value returned by generate_story
    calls,        \* number of calls made to the text-generation collaborator
    failed,       \* number of attempts that failed validation or raised
    raised,       \* number of attempts in which the collaborator raised
    firstValid,   \* number of the first attempt whose text validated, 0 if none
    req,          \* arguments of generate_scene_image
    full_prompt,  \* prompt built by generate_scene_image
    imgCalls,     \* number of calls made to the image-generation collaborator
    err,          \* kind of the exception leaving the generator, "" if none
    image,        \* value returned by generate_scene_image
    resp          \* response of the HTTP handler

vars == <<pc, attempt, story, result, calls, failed, raised, firstValid,
          req, full_prompt, imgCalls, image, err, resp>>

----------------------------------------------------------------------------
(* Bounds of the model *)

MaxLines == 4       \* lines of an enumerated raw text
WordSlack == 1      \* long raw texts have WordLimit-WordSlack..WordLimit+WordSlack words
MaxInvolved == 2    \* length of characters_involved
MaxOutputs == 2     \* length of the image provider's output list

(* Program constants *)

WordLimit == 500

\* one attempt more than the default
max_attempts_Mut == 3 + 1

max_attempts == 3

----------------------------------------------------------------------------
(* Python string primitives *)

IsSpace(c) == c \in {" ", "\t", "\n"}

\* len(s.split()): the number of maximal runs of non-whitespace characters
WordCount(s) ==
    Cardinality({i \in 1..Len(s) : ~IsSpace(s[i]) /\ (i = 1 \/ IsSpace(s[i-1]))})

\* sub in s
Contains(s, sub) ==
    \E i \in 1..(Len(s) - Len(sub) + 1) : SubSeq(s, i, i + Len(sub) - 1) = sub

\* s.startswith(p)
StartsWith(s, p) == Len(s) >= Len(p) /\ SubSeq(s, 1, Len(p)) = p

\* s.strip()
Strip(s) ==
    IF \A i \in 1..Len(s) : IsSpace(s[i]) THEN <<>>
    ELSE LET a == CHOOSE i \in 1..Len(s) :
                      ~IsSpace(s[i]) /\ \A j \in 1..(i-1) : IsSpace(s[j])
             b == CHOOSE i \in 1..Len(s) :
                      ~IsSpace(s[i]) /\ \A j \in (i+1)..Len(s) : IsSpace(s[j])
         IN  SubSeq(s, a, b)

\* s.split('\n')
RECURSIVE SplitLines(_)
SplitLines(s) ==
    IF \A i \in 1..Len(s) : s[i] # "\n" THEN <<s>>
    ELSE LET i == CHOOSE k \in 1..Len(s) :
                      s[k] = "\n" /\ \A j \in 1..(k-1) : s[j] # "\n"
         IN  <<SubSeq(s, 1, i - 1)>> \o SplitLines(SubSeq(s, i + 1, Len(s)))

\* s.replace(old, ''): every non-overlapping occurrence, leftmost first
RECURSIVE Remove(_, _)
Remove(s, old) ==
    IF ~Contains(s, old) THEN s
    ELSE LET i == CHOOSE k \in 1..(Len(s) - Len(old) + 1) :
                      /\ SubSeq(s, k, k + Len(old) - 1) = old
                      /\ \A j \in 1..(k-1) : SubSeq(s, j, j + Len(old) - 1) # old
         IN  SubSeq(s, 1, i - 1) \o Remove(SubSeq(s, i + Len(old), Len(s)), old)

\* sep.join(parts)
RECURSIVE Join(_, _)
Join(parts, sep) ==
    IF parts = <<>> THEN <<>>
    ELSE IF Len(parts) = 1 THEN parts[1]
    ELSE parts[1] \o sep \o Join(Tail(parts), sep)

----------------------------------------------------------------------------
(* Insertion-ordered dict: a sequence of [key, val] entries *)

HasKey(d, k) == \E i \in 1..Len(d) : d[i].key = k

\* d[k] = v
DictSet(d, k, v) ==
    IF HasKey(d, k)
    THEN [i \in 1..Len(d) |-> IF d[i].key = k THEN [key |-> k, val |-> v] ELSE d[i]]
    ELSE Append(d, [key |-> k, val |-> v])

DictGet(d, k) == d[CHOOSE i \in 1..Len(d) : d[i].key = k].val

----------------------------------------------------------------------------
(* GeminiStoryGenerator._validate_content *)

SceneMarker == <<"[", "S", "c", "e", "n", "e">>
TitlePrefix == <<"T", "i", "t", "l", "e", ":">>

\* the word limit compared with >= instead of >
ValidateContent_Mut(s) ==
    IF WordCount(s) >= WordLimit THEN FALSE
    ELSE IF ~Contains(s, SceneMarker) THEN FALSE
    ELSE TRUE

ValidateContent(s) ==
    IF WordCount(s) > WordLimit THEN FALSE
    ELSE IF ~Contains(s, SceneMarker) THEN FALSE
    ELSE TRUE

----------------------------------------------------------------------------
(* The parser inside generate_story.  current_scene = <<>> stands for None: *)
(* both are falsy, and a stripped marker line is never empty.               *)

Flush(scenes, current_scene, current_text) ==
    DictSet(scenes, current_scene, Strip(Join(current_text, <<"\n">>)))

\* the loop without the reset of current_text at a marker
RECURSIVE ParseLoop_Mut(_, _, _, _, _)
ParseLoop_Mut(lines, i, scenes, current_scene, current_text) ==
    IF i > Len(lines)
    THEN [scenes |-> scenes, current_scene |-> current_scene,
          current_text |-> current_text]
    ELSE IF StartsWith(Strip(lines[i]), SceneMarker)
         THEN ParseLoop_Mut(lines, i + 1,
                        IF current_scene # <<>>
                        THEN Flush(scenes, current_scene, current_text)
                        ELSE scenes,
                        Strip(lines[i]), current_text)
    ELSE IF Strip(lines[i]) # <<>> /\ current_scene # <<>>
         THEN ParseLoop_Mut(lines, i + 1, scenes, current_scene,
                        Append(current_text, lines[i]))
    ELSE ParseLoop_Mut(lines, i + 1, scenes, current_scene, current_text)

RECURSIVE ParseLoop(_, _, _, _, _)
ParseLoop(lines, i, scenes, current_scene, current_text) ==
    IF i > Len(lines)
    THEN [scenes |-> scenes, current_scene |-> current_scene,
          current_text |-> current_text]
    ELSE IF StartsWith(Strip(lines[i]), SceneMarker)
         THEN ParseLoop(lines, i + 1,
                        IF current_scene # <<>>
                        THEN Flush(scenes, current_scene, current_text)
                        ELSE scenes,
                        Strip(lines[i]), <<>>)
    ELSE IF Strip(lines[i]) # <<>> /\ current_scene # <<>>
         THEN ParseLoop(lines, i + 1, scenes, current_scene,
                        Append(current_text, lines[i]))
    ELSE ParseLoop(lines, i + 1, scenes, current_scene, current_text)

ParseTitle(lines) == Strip(Remove(lines[1], TitlePrefix))

\* the final flush without the test of current_text
ParseStory_Mut(s) ==
    LET lines == SplitLines(s)
        end == ParseLoop(lines, 2, <<>>, <<>>, <<>>)
        scenes == IF end.current_scene # <<>>
                  THEN Flush(end.scenes, end.current_scene, end.current_text)
                  ELSE end.scenes
    IN  [title |-> ParseTitle(lines), scenes |-> scenes, full_text |-> s]

ParseStory(s) ==
    LET lines == SplitLines(s)
        end == ParseLoop(lines, 2, <<>>, <<>>, <<>>)
        scenes == IF end.current_scene # <<>> /\ end.current_text # <<>>
                  THEN Flush(end.scenes, end.current_scene, end.current_text)
                  ELSE end.scenes
    IN  [title |-> ParseTitle(lines), scenes |-> scenes, full_text |-> s]

NoResult == [title |-> <<>>, scenes |-> <<>>, full_text |-> <<>>]

----------------------------------------------------------------------------
(* Raw texts the text-generation collaborator may return *)

Pieces ==
    { TitlePrefix \o <<" ", "T">>,
      TitlePrefix \o <<" ", "A", " ">> \o TitlePrefix \o <<" ", "B">>,
      SceneMarker \o <<" ", "1", "]">>,
      <<" ">> \o SceneMarker \o <<" ", "2", "]", "\t">>,
      <<"a">>,
      <<" ", "b", " ">>,
      <<" ">>,
      <<"x", " ">> \o SceneMarker }

\* every text of 1..MaxLines lines, each line one of Pieces
SmallTexts ==
    { Join(ls, <<"\n">>) : ls \in UNION { [1..n -> Pieces] : n \in 1..MaxLines } }

\* the openings of a long text, each with its number of words
Openings ==
    { [text |-> SceneMarker, words |-> 1],
      [text |-> <<"w">>, words |-> 1],
      [text |-> <<"w", "\n">> \o SceneMarker, words |-> 2] }

Separators == { <<" ">>, <<"\t", " ">> }

\* a text of n words: the opening, then sep and the word "w" until n words
LongText(n, sep, open) ==
    open.text \o [i \in 1..((n - open.words) * (Len(sep) + 1)) |->
                     IF (i - 1) % (Len(sep) + 1) < Len(sep)
                     THEN sep[((i - 1) % (Len(sep) + 1)) + 1]
                     ELSE "w"]

LongTexts ==
    { LongText(n, sep, open) :
        n \in (WordLimit - WordSlack)..(WordLimit + WordSlack),
        sep \in Separators,
        open \in Openings }

Texts == SmallTexts \cup LongTexts

----------------------------------------------------------------------------
(* Arguments of generate_scene_image and outputs of the image provider *)

Names == { <<"A">>, <<"B">> }
Descriptions == { <<"a", " ", "d", "o", "g">>, <<"a", " ", "c", "a", "t">> }
SceneDescriptions == { <<"p", "a", "r", "k">>, <<"s", "e", "a">> }
Urls == { "url1", "url2" }

InvolvedLists == UNION { [1..n -> Names] : n \in 0..MaxInvolved }
DescriptionMaps == UNION { [D -> Descriptions] : D \in SUBSET Names }
OutputLists == UNION { [1..n -> Urls] : n \in 0..MaxOutputs }

NoRequest == [scene_description |-> <<>>, characters_involved |-> <<>>,
              character_descriptions |-> <<>>]

NoResponse == [status |-> 0, title |-> <<>>, scenes |-> <<>>,
               image_path |-> "", detail |-> ""]

\* the names looked up in character_descriptions that have no entry
Missing(r) ==
    { i \in 1..Len(r.characters_involved) :
        r.characters_involved[i] \notin DOMAIN r.character_descriptions }

\* the for loop of generate_scene_image, from element i on
\* the character lines ended by a space instead of a newline
RECURSIVE PromptLoop_Mut(_, _, _, _)
PromptLoop_Mut(involved, descs, i, acc) ==
    IF i > Len(involved) THEN acc
    ELSE PromptLoop_Mut(involved, descs, i + 1,
                    acc \o involved[i] \o <<":", " ">> \o descs[involved[i]]
                        \o <<" ">>)

RECURSIVE PromptLoop(_, _, _, _)
PromptLoop(involved, descs, i, acc) ==
    IF i > Len(involved) THEN acc
    ELSE PromptLoop(involved, descs, i + 1,
                    acc \o involved[i] \o <<":", " ">> \o descs[involved[i]]
                        \o <<"\n">>)

FullPrompt(r) ==
    PromptLoop(r.characters_involved, r.character_descriptions, 1, <<>>)
        \o <<"S", "c", "e", "n", "e", ":", " ">> \o r.scene_description \o <<".">>

----------------------------------------------------------------------------
(* State after construction: no request is being served *)

Init ==
    /\ pc = "idle"
    /\ attempt = 0
    /\ story = <<>>
    /\ result = NoResult
    /\ calls = 0
    /\ failed = 0
    /\ raised = 0
    /\ firstValid = 0
    /\ req = NoRequest
    /\ full_prompt = <<>>
    /\ imgCalls = 0
    /\ image = ""
    /\ err = ""
    /\ resp = NoResponse

(* POST /generate-story: the handler calls generate_story *)
StoryRequest ==
    /\ pc = "idle"
    /\ pc' = "story_loop"
    /\ attempt' = 0
    /\ UNCHANGED <<story, result, calls, failed, raised, firstValid,
                   req, full_prompt, imgCalls, image, err, resp>>

(* _generate_text returns a raw text *)
GenerateText ==
    /\ pc = "story_loop"
    /\ attempt < max_attempts
    /\ \E t \in Texts : story' = t
    /\ calls' = calls + 1
    /\ pc' = "story_validate"
    /\ UNCHANGED <<attempt, result, failed, raised, firstValid,
                   req, full_prompt, imgCalls, image, err, resp>>

(* _generate_text raises and the handler propagates the exception *)
GenerateRaises_Mut ==
    /\ pc = "story_loop"
    /\ attempt < max_attempts
    /\ calls' = calls + 1
    /\ failed' = failed + 1
    /\ raised' = raised + 1
    /\ err' = "ProviderError"
    /\ pc' = "story_raised"
    /\ UNCHANGED <<attempt, story, result, firstValid,
                   req, full_prompt, imgCalls, image, resp>>

(* _generate_text raises: except Exception: continue *)
GenerateRaises ==
    /\ pc = "story_loop"
    /\ attempt < max_attempts
    /\ calls' = calls + 1
    /\ failed' = failed + 1
    /\ raised' = raised + 1
    /\ attempt' = attempt + 1
    /\ pc' = "story_loop"
    /\ UNCHANGED <<story, result, firstValid,
                   req, full_prompt, imgCalls, image, err, resp>>

(* _validate_content is false: the loop body ends, next iteration *)
ValidateFails ==
    /\ pc = "story_validate"
    /\ ~ValidateContent(story)
    /\ failed' = failed + 1
    /\ attempt' = attempt + 1
    /\ story' = <<>>
    /\ pc' = "story_loop"
    /\ UNCHANGED <<result, calls, raised, firstValid,
                   req, full_prompt, imgCalls, image, err, resp>>

(* _validate_content is true: parse and return *)
ValidateParses ==
    /\ pc = "story_validate"
    /\ ValidateContent(story)
    /\ result' = ParseStory(story)
    /\ firstValid' = attempt + 1
    /\ pc' = "story_returned"
    /\ UNCHANGED <<attempt, story, calls, failed, raised,
                   req, full_prompt, imgCalls, image, err, resp>>

(* the loop is over: raise Exception("Failed to generate a valid story") *)
Exhausted ==
    /\ pc = "story_loop"
    /\ attempt >= max_attempts
    /\ err' = "Exception"
    /\ pc' = "story_raised"
    /\ UNCHANGED <<attempt, story, result, calls, failed, raised, firstValid,
                   req, full_prompt, imgCalls, image, resp>>

(* the handler returns title and scenes *)
StoryResponse ==
    /\ pc = "story_returned"
    /\ resp' = [NoResponse EXCEPT !.status = 200, !.title = result.title,
                                  !.scenes = result.scenes]
    /\ pc' = "responded"
    /\ UNCHANGED <<attempt, story, result, calls, failed, raised, firstValid,
                   req, full_prompt, imgCalls, image, err>>

(* the handler turns the exception into HTTP 500 *)
StoryError ==
    /\ pc = "story_raised"
    /\ resp' = [NoResponse EXCEPT !.status = 500, !.detail = err]
    /\ pc' = "responded"
    /\ UNCHANGED <<attempt, story, result, calls, failed, raised, firstValid,
                   req, full_prompt, imgCalls, image, err>>

----------------------------------------------------------------------------
(* POST /generate-image: the handler calls generate_scene_image *)
ImageRequest ==
    /\ pc = "idle"
    /\ \E inv \in InvolvedLists, descs \in DescriptionMaps,
          sd \in SceneDescriptions :
           req' = [scene_description |-> sd, characters_involved |-> inv,
                   character_descriptions |-> descs]
    /\ pc' = "img_build"
    /\ UNCHANGED <<attempt, story, result, calls, failed, raised, firstValid,
                   full_prompt, imgCalls, image, err, resp>>

(* character_descriptions[character_name] raises KeyError *)
BuildPromptFails ==
    /\ pc = "img_build"
    /\ Missing(req) # {}
    /\ err' = "KeyError"
    /\ pc' = "img_raised"
    /\ UNCHANGED <<attempt, story, result, calls, failed, raised, firstValid,
                   req, full_prompt, imgCalls, image, resp>>

(* the prompt is built *)
BuildPrompt ==
    /\ pc = "img_build"
    /\ Missing(req) = {}
    /\ full_prompt' = FullPrompt(req)
    /\ pc' = "img_call"
    /\ UNCHANGED <<attempt, story, result, calls, failed, raised, firstValid,
                   req, imgCalls, image, err, resp>>

(* monster_client.generate returns; result['output'][0] *)
ImageGenerate ==
    /\ pc = "img_call"
    /\ imgCalls' = imgCalls + 1
    /\ \E out \in OutputLists :
          IF out = <<>>
          THEN /\ err' = "IndexError"
               /\ pc' = "img_raised"
               /\ UNCHANGED image
          ELSE /\ image' = out[1]
               /\ pc' = "img_returned"
               /\ UNCHANGED err
    /\ UNCHANGED <<attempt, story, result, calls, failed, raised, firstValid,
                   req, full_prompt, resp>>

(* monster_client.generate raises and the call is made again *)
ImageGenerateRaises_Mut ==
    /\ pc = "img_call"
    /\ imgCalls < 2
    /\ imgCalls' = imgCalls + 1
    /\ UNCHANGED <<pc, attempt, story, result, calls, failed, raised, firstValid,
                   req, full_prompt, image, err, resp>>

(* monster_client.generate raises: the exception propagates *)
ImageGenerateRaises ==
    /\ pc = "img_call"
    /\ imgCalls' = imgCalls + 1
    /\ err' = "ProviderError"
    /\ pc' = "img_raised"
    /\ UNCHANGED <<attempt, story, result, calls, failed, raised, firstValid,
                   req, full_prompt, image, resp>>

(* the handler returns the image path *)
ImageResponse ==
    /\ pc = "img_returned"
    /\ resp' = [NoResponse EXCEPT !.status = 200, !.image_path = image]
    /\ pc' = "responded"
    /\ UNCHANGED <<attempt, story, result, calls, failed, raised, firstValid,
                   req, full_prompt, imgCalls, image, err>>

(* the handler turns the exception into HTTP 500 *)
ImageError ==
    /\ pc = "img_raised"
    /\ resp' = [NoResponse EXCEPT !.status = 500, !.detail = err]
    /\ pc' = "responded"
    /\ UNCHANGED <<attempt, story, result, calls, failed, raised, firstValid,
                   req, full_prompt, imgCalls, image, err>>

(* the request is over; its state is discarded and the next one is served *)
NextRequest ==
    /\ pc = "responded"
    /\ pc' = "idle"
    /\ attempt' = 0
    /\ story' = <<>>
    /\ result' = NoResult
    /\ calls' = 0
    /\ failed' = 0
    /\ raised' = 0
    /\ firstValid' = 0
    /\ req' = NoRequest
    /\ full_prompt' = <<>>
    /\ imgCalls' = 0
    /\ image' = ""
    /\ err' = ""
    /\ resp' = NoResponse

Next ==
    \/ StoryRequest
    \/ GenerateText
    \/ GenerateRaises
    \/ ValidateFails
    \/ ValidateParses
    \/ Exhausted
    \/ StoryResponse
    \/ StoryError
    \/ ImageRequest
    \/ BuildPromptFails
    \/ BuildPrompt
    \/ ImageGenerate
    \/ ImageGenerateRaises
    \/ ImageResponse
    \/ ImageError
    \/ NextRequest

Spec == Init /\ [][Next]_vars

----------------------------------------------------------------------------
(* Vocabulary of the properties, stated on the raw text itself *)

\* a story request has come back from generate_story with a result
Returned == pc = "story_returned"

\* number of positions where a word ends
WordEnds(s) ==
    Cardinality({i \in 1..Len(s) :
                   s[i] \notin {" ", "\t", "\n"}
                   /\ (i = Len(s) \/ s[i+1] \in {" ", "\t", "\n"})})

\* the six characters [Scene occur consecutively somewhere in s
MarkerAt(s, i) ==
    /\ i + 5 <= Len(s)
    /\ s[i] = "[" /\ s[i+1] = "S" /\ s[i+2] = "c"
    /\ s[i+3] = "e" /\ s[i+4] = "n" /\ s[i+5] = "e"

HasMarker(s) == \E i \in 1..Len(s) : MarkerAt(s, i)

Blank(l) == \A i \in 1..Len(l) : l[i] \in {" ", "\t", "\n"}

\* indices of the scene-marker lines: lines after the first whose trimmed
\* form starts with [Scene
MarkerLines(lines) ==
    {i \in 2..Len(lines) : StartsWith(Strip(lines[i]), SceneMarker)}

\* index of the next marker line after line i, or one past the last line
NextMarker(lines, i) ==
    IF \E j \in MarkerLines(lines) : j > i
    THEN CHOOSE j \in MarkerLines(lines) :
             j > i /\ \A k \in MarkerLines(lines) : k > i => j <= k
    ELSE Len(lines) + 1

NonBlank(l) == ~Blank(l)

\* the non-blank lines between marker line i and the next marker or the end
BodyLines(lines, i) ==
    SelectSeq(SubSeq(lines, i + 1, NextMarker(lines, i) - 1), NonBlank)

Body(lines, i) == Strip(Join(BodyLines(lines, i), <<"\n">>))

\* marker line i is the last marker and no non-blank line follows it
TrailingEmpty(lines, i) ==
    /\ i \in MarkerLines(lines)
    /\ NextMarker(lines, i) = Len(lines) + 1
    /\ BodyLines(lines, i) = <<>>

\* the marker lines the parser records
Recorded(lines) == {i \in MarkerLines(lines) : ~TrailingEmpty(lines, i)}

Keys(d) == {d[i].key : i \in 1..Len(d)}

\* the keys of d are distinct and in the order of their first line in ms
OrderedByFirst(d, lines, ms) ==
    /\ \A p, q \in 1..Len(d) : p # q => d[p].key # d[q].key
    /\ \A p, q \in 1..Len(d) :
          p < q => \E i \in ms :
                      /\ Strip(lines[i]) = d[p].key
                      /\ \A j \in ms : Strip(lines[j]) = d[q].key => i < j

----------------------------------------------------------------------------
\* C1: one generate_story call makes exactly k calls to the text-generation
\* collaborator when attempt k (1 <= k <= 3) is the first whose text
\* validates, and exactly 3 before the terminal failure when none does; no
\* call follows a validated result and there are never more than 3.
RetryBound ==
    /\ calls <= 3
    /\ (firstValid # 0 => calls = firstValid)
    /\ (Returned => firstValid \in 1..3 /\ failed = firstValid - 1)
    /\ (pc = "story_raised" => calls = 3 /\ firstValid = 0)

SecondAttemptWins == Returned /\ firstValid = 2 /\ calls = 2

\* C2: an exception raised in an attempt is swallowed and counted as a failed
\* attempt; the caller sees either a story or the single exhaustion failure,
\* and the failure only after all 3 attempts failed validation or raised.
SwallowAndExhaust ==
    /\ (pc \in {"story_loop", "story_validate", "story_returned"} => err = "")
    /\ (pc = "story_raised" => err = "Exception" /\ failed = 3 /\ firstValid = 0)
    /\ (pc = "responded" /\ calls > 0 =>
          \/ /\ resp.status = 200
             /\ firstValid # 0
             /\ resp.title = result.title
             /\ resp.scenes = result.scenes
          \/ /\ resp.status = 500
             /\ resp.detail = "Exception"
             /\ failed = 3)
    /\ raised <= failed

StoryAfterException ==
    pc = "responded" /\ resp.status = 200 /\ raised >= 1 /\ firstValid = raised + 1

\* C3: a raw text is accepted if and only if it has at most 500
\* whitespace-separated words and contains [Scene; 500 words with a marker
\* pass, 501 words fail with or without a marker, no marker fails.
ValidationBoundary ==
    [][pc = "story_validate" =>
         /\ (pc' = "story_returned") <=> (WordEnds(story) <= 500 /\ HasMarker(story))
         /\ \A n \in (WordLimit - WordSlack)..(WordLimit + WordSlack),
               sep \in Separators, open \in Openings :
               (/\ Len(story) = Len(open.text) + (n - open.words) * (Len(sep) + 1)
                /\ story = LongText(n, sep, open)) =>
                  ((pc' = "story_returned")
                      <=> (n <= 500 /\ open.text # <<"w">>))
    ]_vars

Accepted500Words == Returned /\ WordEnds(story) = 500 /\ HasMarker(story)

\* C4 as stated: every scene-marker line after the first line is a key, in
\* order of first appearance, and maps to the trimmed newline-join of the
\* non-blank lines between it and the next marker or the end of input.
ParserMapsEveryMarker ==
    Returned =>
        LET lines == SplitLines(story)
            ms == MarkerLines(lines)
        IN  /\ Keys(result.scenes) = {Strip(lines[i]) : i \in ms}
            /\ \A i \in ms :
                  /\ HasKey(result.scenes, Strip(lines[i]))
                  /\ DictGet(result.scenes, Strip(lines[i])) = Body(lines, i)
            /\ OrderedByFirst(result.scenes, lines, ms)

\* C4 amended: the recorded markers are the scene-marker lines after the
\* first line except a final marker with no non-blank line after it; the
\* keys are their trimmed forms in order of first appearance, and each key
\* maps to the trimmed newline-join of the non-blank lines between the last
\* recorded marker with that trimmed form and the next marker or the end of
\* input; lines before the first marker are in no body.
ParserMapsRecordedMarkers ==
    Returned =>
        LET lines == SplitLines(story)
            rec == Recorded(lines)
        IN  /\ Keys(result.scenes) = {Strip(lines[i]) : i \in rec}
            /\ \A i \in rec :
                  (\A j \in rec : Strip(lines[j]) = Strip(lines[i]) => j <= i)
                  => DictGet(result.scenes, Strip(lines[i])) = Body(lines, i)
            /\ OrderedByFirst(result.scenes, lines, rec)

\* a line dropped before the first marker, then a scene of two body lines
\* or two scenes
SceneBodiesParsed ==
    /\ Returned
    /\ result.scenes # <<>>
    /\ LET lines == SplitLines(story)
       IN  \E i \in MarkerLines(lines) :
              /\ ~TrailingEmpty(lines, i)
              /\ \/ Len(BodyLines(lines, i)) = 2
                 \/ i > 2 /\ BodyLines(lines, i) # <<>>

\* C8: whenever a raw text passes validation, the returned scenes mapping
\* is non-empty.
ScenesNonEmpty == Returned => result.scenes # <<>>

\* C9 as stated: a trailing marker with no non-blank line after it is not a
\* key of the mapping; a marker with an empty body that is followed by
\* another marker is a key with an empty body.
TrailingMarkerNotAKey ==
    Returned =>
        LET lines == SplitLines(story)
        IN  \A i \in MarkerLines(lines) :
              /\ TrailingEmpty(lines, i) => ~HasKey(result.scenes, Strip(lines[i]))
              /\ (BodyLines(lines, i) = <<>> /\ ~TrailingEmpty(lines, i)) =>
                    /\ HasKey(result.scenes, Strip(lines[i]))
                    /\ DictGet(result.scenes, Strip(lines[i])) = <<>>

\* C9 amended: a trailing marker with no non-blank line after it adds no
\* entry (its trimmed form is a key only if an earlier marker line has the
\* same trimmed form); a marker with an empty body that is followed by
\* another marker is a key, with an empty body unless a later recorded marker
\* line has the same trimmed form.
TrailingMarkerAddsNoEntry ==
    Returned =>
        LET lines == SplitLines(story)
        IN  \A i \in MarkerLines(lines) :
              /\ TrailingEmpty(lines, i) =>
                    (HasKey(result.scenes, Strip(lines[i]))
                       <=> \E j \in MarkerLines(lines) :
                              j < i /\ Strip(lines[j]) = Strip(lines[i]))
              /\ (BodyLines(lines, i) = <<>> /\ ~TrailingEmpty(lines, i)) =>
                    /\ HasKey(result.scenes, Strip(lines[i]))
                    /\ (\A j \in Recorded(lines) :
                           j > i => Strip(lines[j]) # Strip(lines[i]))
                       => DictGet(result.scenes, Strip(lines[i])) = <<>>

\* an empty-bodied marker followed by a trailing marker of another name
EmptyKeptTrailingDropped ==
    /\ Returned
    /\ LET lines == SplitLines(story)
       IN  \E i, j \in MarkerLines(lines) :
              /\ i < j
              /\ BodyLines(lines, i) = <<>>
              /\ TrailingEmpty(lines, j)
              /\ Strip(lines[i]) # Strip(lines[j])
              /\ HasKey(result.scenes, Strip(lines[i]))
              /\ ~HasKey(result.scenes, Strip(lines[j]))

\* C10: the title is the first line with the leading Title: prefix
\* stripped and the surrounding whitespace trimmed; a later Title: inside the
\* first line is kept.
TitlePrefixStripped ==
    Returned =>
        LET first == SplitLines(story)[1]
        IN  StartsWith(first, TitlePrefix) =>
               result.title = Strip(SubSeq(first, Len(TitlePrefix) + 1, Len(first)))

----------------------------------------------------------------------------
ExampleRequest ==
    [scene_description |-> <<"p", "a", "r", "k">>,
     characters_involved |-> << <<"A">>, <<"B">> >>,
     character_descriptions |->
         [n \in Names |-> IF n = <<"A">> THEN <<"a", " ", "d", "o", "g">>
                                         ELSE <<"a", " ", "c", "a", "t">>]]

ExamplePrompt ==
    <<"A", ":", " ", "a", " ", "d", "o", "g", "\n",
      "B", ":", " ", "a", " ", "c", "a", "t", "\n",
      "S", "c", "e", "n", "e", ":", " ", "p", "a", "r", "k", ".">>

\* C5: the image prompt is one line "<name>: <description>" per involved
\* character, in the given order with duplicates repeated, each ended by a
\* newline, then the line "Scene: <scene_description>." with no newline
\* after it.
PromptAssembly ==
    pc \in {"img_call", "img_returned"} =>
        LET ls == SplitLines(full_prompt)
            inv == req.characters_involved
        IN  /\ Len(ls) = Len(inv) + 1
            /\ \A i \in 1..Len(inv) :
                  ls[i] = inv[i] \o <<":", " ">> \o req.character_descriptions[inv[i]]
            /\ ls[Len(ls)] = <<"S", "c", "e", "n", "e", ":", " ">>
                                \o req.scene_description \o <<".">>
            /\ (req = ExampleRequest => full_prompt = ExamplePrompt)

ExamplePromptBuilt == pc = "img_call" /\ req = ExampleRequest /\ full_prompt = ExamplePrompt

\* C6: a name in characters_involved without an entry in
\* character_descriptions fails the request with the error kind
\* MissingCharacterDescription.
MissingDescriptionKind ==
    /\ (pc = "img_raised" /\ Missing(req) # {} => err = "MissingCharacterDescription")
    /\ (pc = "responded" /\ Missing(req) # {} =>
           resp.detail = "MissingCharacterDescription")

\* C7: one image request calls the image-generation collaborator at most
\* once; a missing description, a collaborator exception or an empty output
\* list ends the request as a failure with no further call.
ImageNoRetry ==
    /\ imgCalls <= 1
    /\ (Missing(req) # {} => imgCalls = 0)
    /\ (pc = "img_raised" =>
          \/ err = "KeyError" /\ imgCalls = 0
          \/ err \in {"ProviderError", "IndexError"} /\ imgCalls = 1)
    /\ (pc = "responded" /\ calls = 0 /\ err # "" => resp.status = 500 /\ image = "")
    /\ (pc = "responded" /\ calls = 0 /\ err = "" => resp.status = 200 /\ imgCalls = 1)

EmptyOutputFailed ==
    pc = "responded" /\ err = "IndexError" /\ imgCalls = 1 /\ resp.status = 500

====
